---- MODULE Spec2Model ----
(***************************************************************************)
(* video_clipper: the manifest data model (VideoClip, VideoFile,           *)
(* VideoClipperManifest), the persistence gate (save_manifest) and the     *)
(* commands `add` and `clip` of src/video_clipper.py, as a state machine   *)
(* over the manifest file, its .backup sibling and the output directory.   *)
(***************************************************************************)
EXTENDS Integers, Sequences, FiniteSets, TLC

VARIABLES
    mfile,      \* content of the manifest file (a JSON value)
    backup,     \* content of "<manifest>.backup" (a JSON value, or NoFile)
    outdir,     \* output directory: file name -> content id of the regular file
    indir,      \* input directory: the set of source files present
    pc,         \* "idle", or "clip" while clip_command is inside its loop
    args,       \* argparse.Namespace of the current / last command
    mem,        \* the command's in-memory VideoClipperManifest (or None)
    all_clips,  \* clip_command's all_clips_with_file, as <<video, clip>> indices
    idx,        \* position of the loop of clip_command in all_clips
    ret,        \* how the last command ended: "running", "true", "false", "exception"
    events,     \* what the command did: one record per artifact of the loop of
                \* clip_command, or the value add_new_clip returned to add_command
    pre,        \* the files as they were when the current / last command started
    prev,       \* command, flags and ret of the command before the current one
    runs        \* number of commands started

vars == <<mfile, backup, outdir, indir, pc, args, mem, all_clips, idx, ret,
          events, pre, prev, runs>>

(***************************************************************************)
(* Bounds of the model.                                                    *)
(***************************************************************************)
MaxRuns == 2        \* commands run one after the other
MaxContent == 2     \* distinct contents the materializer can write: 1..MaxContent

(***************************************************************************)
(* Keys of the manifest document.                                          *)
(***************************************************************************)
KEY_VERSION == "version"
KEY_VIDEOS == "videos"
KEY_START == "start"
KEY_END == "end"
KEY_CLIPS == "clips"
KEY_SHA256_CHECKSUM == "sha256_checksum"

None == [none |-> TRUE]
NoFile == [nofile |-> TRUE]

(***************************************************************************)
(* Strings: characters, their order, and pathlib's name / stem / suffix.   *)
(***************************************************************************)
\* The characters used, in code point order.
Alphabet == "./0123456789:_abcdefghijklmnopqrstuvwxyz"

CharAt(s, i) == SubSeq(s, i, i)

Ord(c) == CHOOSE i \in 1..Len(Alphabet) : CharAt(Alphabet, i) = c

Digits == "0123456789"

IsDigit(c) == \E i \in 1..Len(Digits) : CharAt(Digits, i) = c

DigitVal(c) == (CHOOSE i \in 1..Len(Digits) : CharAt(Digits, i) = c) - 1

\* Python's str comparison a < b: lexicographic by code point.
RECURSIVE StrLess(_, _)
StrLess(a, b) ==
    IF Len(b) = 0 THEN FALSE
    ELSE IF Len(a) = 0 THEN TRUE
    ELSE IF CharAt(a, 1) = CharAt(b, 1)
         THEN StrLess(SubSeq(a, 2, Len(a)), SubSeq(b, 2, Len(b)))
         ELSE Ord(CharAt(a, 1)) < Ord(CharAt(b, 1))

\* str.rfind(c): the last position of c in s, 0 when there is none.
RFind(s, c) ==
    LET hits == {i \in 1..Len(s) : CharAt(s, i) = c}
    IN  IF hits = {} THEN 0 ELSE CHOOSE i \in hits : \A j \in hits : j <= i

\* Path(p).name: the final path component.
PathName(p) == SubSeq(p, RFind(p, "/") + 1, Len(p))

\* Path(p).suffix: from the last dot of the name, unless it leads or ends it.
PathSuffix(p) ==
    LET n == PathName(p)
        i == RFind(n, ".")
    IN  IF 1 < i /\ i < Len(n) THEN SubSeq(n, i, Len(n)) ELSE ""

\* Path(p).stem: the name without its suffix.
PathStem(p) ==
    LET n == PathName(p)
    IN  SubSeq(n, 1, Len(n) - Len(PathSuffix(p)))

(***************************************************************************)
(* Python dicts and JSON objects: insertion-ordered sequences of entries   *)
(* [k |-> key, v |-> value] with distinct keys.                            *)
(***************************************************************************)
Has(d, key) == \E i \in 1..Len(d) : d[i].k = key

Get(d, key) == d[CHOOSE i \in 1..Len(d) : d[i].k = key].v

\* d[key] = value: in place for a key already there, appended otherwise.
Put(d, key, value) ==
    IF Has(d, key)
    THEN [i \in 1..Len(d) |-> IF d[i].k = key THEN [k |-> key, v |-> value] ELSE d[i]]
    ELSE Append(d, [k |-> key, v |-> value])

\* JSON values: a string, an object, or a file json.load cannot decode.
JStr(s) == [t |-> "str", s |-> s, o |-> <<>>]
JObj(entries) == [t |-> "obj", s |-> "", o |-> entries]
JInvalid == [t |-> "invalid", s |-> "", o |-> <<>>]

(***************************************************************************)
(* VideoClip                                                               *)
(***************************************************************************)
VideoClip(filename, start, end, sha) ==
    [filename |-> filename, start_timestamp |-> start,
     end_timestamp |-> end, sha256_checksum |-> sha]

VideoClip_from_json(clip_name, clip_json) ==
    IF ~Has(clip_json.o, KEY_START) THEN None
    ELSE IF ~Has(clip_json.o, KEY_END) THEN None
    ELSE VideoClip(clip_name,
                   Get(clip_json.o, KEY_START).s,
                   Get(clip_json.o, KEY_END).s,
                   IF Has(clip_json.o, KEY_SHA256_CHECKSUM)
                   THEN Get(clip_json.o, KEY_SHA256_CHECKSUM).s
                   ELSE "none")

\* VideoClip.to_json writing the end timestamp before the start timestamp.
VideoClip_to_json_EndFirst(clip) ==
    JObj(<<[k |-> KEY_END, v |-> JStr(clip.end_timestamp)],
           [k |-> KEY_START, v |-> JStr(clip.start_timestamp)],
           [k |-> KEY_SHA256_CHECKSUM, v |-> JStr(clip.sha256_checksum)]>>)

VideoClip_to_json(clip) ==
    JObj(<<[k |-> KEY_START, v |-> JStr(clip.start_timestamp)],
           [k |-> KEY_END, v |-> JStr(clip.end_timestamp)],
           [k |-> KEY_SHA256_CHECKSUM, v |-> JStr(clip.sha256_checksum)]>>)

\* clip.get_filepath(output_dir), as the name of the entry of output_dir.
VideoClip_get_filepath(clip) == clip.filename

(***************************************************************************)
(* VideoFile                                                               *)
(***************************************************************************)
VideoFile(filename, clips) == [filename |-> filename, clips |-> clips]

VideoFile_from_json(video_name, video_json) ==
    IF ~Has(video_json.o, KEY_CLIPS) THEN None
    ELSE LET cj == Get(video_json.o, KEY_CLIPS).o
             parsed == [i \in 1..Len(cj) |->
                           [k |-> cj[i].k, v |-> VideoClip_from_json(cj[i].k, cj[i].v)]]
         IN  IF \E i \in 1..Len(cj) : parsed[i].v = None THEN None
             ELSE VideoFile(video_name, parsed)

VideoFile_to_json(video) ==
    JObj(<<[k |-> KEY_CLIPS,
            v |-> JObj([i \in 1..Len(video.clips) |->
                           [k |-> video.clips[i].v.filename,
                            v |-> VideoClip_to_json(video.clips[i].v)]])]>>)

\* The name numbered by the count of clips, taken without a look at the clips.
FirstFreeName_FromCount(filename, clips, clip_idx) ==
    PathStem(filename) \o "_" \o ToString(Len(clips)) \o PathSuffix(filename)

\* The while loop of VideoFile.add_new_clip: the first free candidate name.
RECURSIVE FirstFreeName(_, _, _)
FirstFreeName(filename, clips, clip_idx) ==
    LET candidate_clip_name ==
            PathStem(filename) \o "_" \o ToString(clip_idx) \o PathSuffix(filename)
    IN  IF ~Has(clips, candidate_clip_name) THEN candidate_clip_name
        ELSE FirstFreeName(filename, clips, clip_idx + 1)

\* The duplicate test looking at the first clip only.
ClipAlreadyExists_FirstOnly(video, begin, end) ==
    /\ Len(video.clips) > 0
    /\ video.clips[1].v.start_timestamp = begin
    /\ video.clips[1].v.end_timestamp = end

\* Whether a clip of the video already has exactly these timestamps.
ClipAlreadyExists(video, begin, end) ==
    \E i \in 1..Len(video.clips) :
        /\ video.clips[i].v.start_timestamp = begin
        /\ video.clips[i].v.end_timestamp = end

\* add_new_clip without its duplicate test.
VideoFile_add_new_clip_NoCheck(video, begin, end) ==
    LET name == FirstFreeName(video.filename, video.clips, 0)
    IN  [ok |-> TRUE,
         video |-> VideoFile(video.filename,
                             Put(video.clips, name, VideoClip(name, begin, end, "none")))]

\* VideoFile.add_new_clip: [ok |-> the value returned, video |-> self afterwards].
VideoFile_add_new_clip(video, begin, end) ==
    IF ClipAlreadyExists(video, begin, end)
    THEN [ok |-> FALSE, video |-> video]
    ELSE LET name == FirstFreeName(video.filename, video.clips, 0)
         IN  [ok |-> TRUE,
              video |-> VideoFile(video.filename,
                                  Put(video.clips, name, VideoClip(name, begin, end, "none")))]

(***************************************************************************)
(* VideoClipperManifest                                                    *)
(***************************************************************************)
VideoClipperManifest(version, video_files) ==
    [version |-> version, video_files |-> video_files]

Manifest_from_json(manifest_json) ==
    IF ~Has(manifest_json.o, KEY_VERSION) THEN None
    ELSE IF ~Has(manifest_json.o, KEY_VIDEOS) THEN None
    ELSE LET vj == Get(manifest_json.o, KEY_VIDEOS).o
             parsed == [i \in 1..Len(vj) |->
                           [k |-> vj[i].k, v |-> VideoFile_from_json(vj[i].k, vj[i].v)]]
         IN  IF \E i \in 1..Len(vj) : parsed[i].v = None THEN None
             ELSE VideoClipperManifest(Get(manifest_json.o, KEY_VERSION).s, parsed)

\* from_json_file: None when the file cannot be decoded or fails from_json.
Manifest_from_json_file(file) ==
    IF file.t = "invalid" THEN None ELSE Manifest_from_json(file)

Manifest_to_json(manifest) ==
    JObj(<<[k |-> KEY_VERSION, v |-> JStr(manifest.version)],
           [k |-> KEY_VIDEOS,
            v |-> JObj([i \in 1..Len(manifest.video_files) |->
                           [k |-> manifest.video_files[i].v.filename,
                            v |-> VideoFile_to_json(manifest.video_files[i].v)]])]>>)

\* sorted(d.items()) for a dict: by key, the keys being distinct.
RECURSIVE SortedItems(_)
SortedItems(items) ==
    IF items = <<>> THEN <<>>
    ELSE LET m == CHOOSE i \in 1..Len(items) :
                      \A j \in 1..Len(items) : j # i => StrLess(items[i].k, items[j].k)
         IN  <<items[m]>>
                 \o SortedItems(SubSeq(items, 1, m - 1) \o SubSeq(items, m + 1, Len(items)))

\* VideoClipperManifest.sort leaving the videos in the order they are in.
Manifest_sort_KeepsOrder(manifest) == manifest

\* VideoClipperManifest.sort: the videos in ascending order of their names.
Manifest_sort(manifest) ==
    [manifest EXCEPT !.video_files = SortedItems(manifest.video_files)]

\* VideoClipperManifest.add_new_clip: [ok |-> returned, manifest |-> self afterwards].
Manifest_add_new_clip(manifest, input_filename, begin, end) ==
    LET with_entry ==
            IF Has(manifest.video_files, input_filename) THEN manifest.video_files
            ELSE Put(manifest.video_files, input_filename, VideoFile(input_filename, <<>>))
        r == VideoFile_add_new_clip(Get(with_entry, input_filename), begin, end)
    IN  [ok |-> r.ok,
         manifest |-> VideoClipperManifest(manifest.version,
                                           Put(with_entry, input_filename, r.video))]

is_valid_time_format(timestamp) ==
    /\ Len(timestamp) = 8
    /\ \A i \in {1, 2, 4, 5, 7, 8} : IsDigit(CharAt(timestamp, i))
    /\ \A i \in {3, 6} : CharAt(timestamp, i) = ":"
    /\ LET hours == 10 * DigitVal(CharAt(timestamp, 1)) + DigitVal(CharAt(timestamp, 2))
           minutes == 10 * DigitVal(CharAt(timestamp, 4)) + DigitVal(CharAt(timestamp, 5))
           seconds == 10 * DigitVal(CharAt(timestamp, 7)) + DigitVal(CharAt(timestamp, 8))
       IN  0 <= hours /\ hours <= 24 /\ 0 <= minutes /\ minutes <= 60
           /\ 0 <= seconds /\ seconds <= 60

\* validate_input_files looking at the start timestamps only.
validate_input_files_StartOnly(manifest, input_files) ==
    \A i \in 1..Len(manifest.video_files) :
        LET video == manifest.video_files[i].v
        IN  /\ video.filename \in input_files
            /\ \A j \in 1..Len(video.clips) :
                   is_valid_time_format(video.clips[j].v.start_timestamp)

\* VideoClipperManifest.validate_input_files against the input directory.
validate_input_files(manifest, input_files) ==
    \A i \in 1..Len(manifest.video_files) :
        LET video == manifest.video_files[i].v
        IN  /\ video.filename \in input_files
            /\ \A j \in 1..Len(video.clips) :
                   /\ is_valid_time_format(video.clips[j].v.start_timestamp)
                   /\ is_valid_time_format(video.clips[j].v.end_timestamp)

(***************************************************************************)
(* Hashing service, persistence gate, reconcile decision, materializer.    *)
(***************************************************************************)
\* sha25_hash_of_file: the hex digest of a file's content (one per content).
sha25_hash_of_file(content) == "h" \o ToString(content)

\* save_manifest without its dryrun return.
save_manifest_IgnoresDryrun(manifest, file, bak, no_backup, dryrun, copy_ok) ==
    IF ~no_backup /\ ~copy_ok
    THEN [mfile |-> file, backup |-> bak, raised |-> TRUE]
    ELSE [mfile |-> Manifest_to_json(manifest),
          backup |-> IF ~no_backup THEN file ELSE bak,
          raised |-> FALSE]

\* save_manifest copying the manifest file to .backup after it has written it.
save_manifest_BackupAfterWrite(manifest, file, bak, no_backup, dryrun, copy_ok) ==
    IF dryrun THEN [mfile |-> file, backup |-> bak, raised |-> FALSE]
    ELSE IF ~no_backup /\ ~copy_ok
    THEN [mfile |-> Manifest_to_json(manifest), backup |-> bak, raised |-> TRUE]
    ELSE [mfile |-> Manifest_to_json(manifest),
          backup |-> IF ~no_backup THEN Manifest_to_json(manifest) ELSE bak,
          raised |-> FALSE]

\* Whether shutil.copy2 succeeds, where save_manifest calls it.
CopyOutcomes(copies) == IF copies THEN BOOLEAN ELSE {TRUE}

\* save_manifest: the manifest file and its .backup afterwards, and whether
\* the copy to .backup raised, which leaves save_manifest before the write.
save_manifest(manifest, file, bak, no_backup, dryrun, copy_ok) ==
    IF dryrun THEN [mfile |-> file, backup |-> bak, raised |-> FALSE]
    ELSE IF ~no_backup /\ ~copy_ok
    THEN [mfile |-> file, backup |-> bak, raised |-> TRUE]
    ELSE [mfile |-> Manifest_to_json(manifest),
          backup |-> IF ~no_backup THEN file ELSE bak,
          raised |-> FALSE]

\* clip.get_filepath(output_path).exists()
ClipFileExists(clip, output) == VideoClip_get_filepath(clip) \in DOMAIN output

\* should_clip_video never looking at the hash of an existing file.
should_clip_video_TrustsExisting(clip, output, overwrite) ==
    ~ClipFileExists(clip, output)

\* should_clip_video: TRUE when the clip is to be (re)produced.
should_clip_video(clip, output, overwrite) ==
    IF ~ClipFileExists(clip, output) THEN TRUE
    ELSE IF ~overwrite THEN FALSE
    ELSE IF sha25_hash_of_file(output[VideoClip_get_filepath(clip)]) = clip.sha256_checksum
         THEN FALSE
         ELSE TRUE

\* should_clip_video reaches its call of sha25_hash_of_file.
should_clip_video_hashes(clip, output, overwrite) ==
    ClipFileExists(clip, output) /\ overwrite

\* The mismatch line written before the test of overwrite.
should_clip_video_reports_BeforeOverwriteTest(clip, output, overwrite) ==
    /\ ClipFileExists(clip, output)
    /\ sha25_hash_of_file(output[VideoClip_get_filepath(clip)]) # clip.sha256_checksum

\* should_clip_video writes its "Hash mismatch for clip" line.
should_clip_video_reports(clip, output, overwrite) ==
    /\ ClipFileExists(clip, output)
    /\ overwrite
    /\ sha25_hash_of_file(output[VideoClip_get_filepath(clip)]) # clip.sha256_checksum

\* What one run of ffmpeg can do: exit 0 having written the clip (content
\* 1..MaxContent), or exit non-zero leaving the destination as it was
\* ("fail") or holding a truncated file, content 0 ("partial").
MaterializerOutcomes ==
    [returncode : {0}, content : 1..MaxContent, wrote : {TRUE}]
        \cup {[returncode |-> 1, content |-> 0, wrote |-> FALSE],
              [returncode |-> 1, content |-> 0, wrote |-> TRUE]}

\* clip_video: the output directory after the run of ffmpeg.
clip_video(clip, output, outcome) ==
    IF outcome.wrote
    THEN (VideoClip_get_filepath(clip) :> outcome.content) @@ output
    ELSE output

\* clip.sha256_checksum = h, for the clip at <<vi, ci>> of the manifest.
SetChecksum(manifest, vi, ci, h) ==
    [manifest EXCEPT !.video_files[vi].v.clips[ci].v.sha256_checksum = h]

ClipAt(manifest, vc) == manifest.video_files[vc[1]].v.clips[vc[2]].v

\* all_clips_with_file of clip_command: videos in order, clips in order.
RECURSIVE AllClipsFrom(_, _)
AllClipsFrom(manifest, vi) ==
    IF vi > Len(manifest.video_files) THEN <<>>
    ELSE [ci \in 1..Len(manifest.video_files[vi].v.clips) |-> <<vi, ci>>]
             \o AllClipsFrom(manifest, vi + 1)

AllClipsWithFile(manifest) == AllClipsFrom(manifest, 1)

(***************************************************************************)
(* Inputs: manifest documents, output directories, command arguments.      *)
(***************************************************************************)
ClipJ(name, start, end, sha) ==
    [k |-> name,
     v |-> JObj(<<[k |-> KEY_START, v |-> JStr(start)],
                  [k |-> KEY_END, v |-> JStr(end)],
                  [k |-> KEY_SHA256_CHECKSUM, v |-> JStr(sha)]>>)]

\* A clip entry without its "sha256_checksum" key.
ClipJNoSha(name, start, end) ==
    [k |-> name,
     v |-> JObj(<<[k |-> KEY_START, v |-> JStr(start)],
                  [k |-> KEY_END, v |-> JStr(end)]>>)]

VideoJ(name, clips) == [k |-> name, v |-> JObj(<<[k |-> KEY_CLIPS, v |-> JObj(clips)]>>)]

DocJ(videos) ==
    JObj(<<[k |-> KEY_VERSION, v |-> JStr("1")], [k |-> KEY_VIDEOS, v |-> JObj(videos)]>>)

T1 == "00:00:10"
T2 == "00:00:20"
T3 == "00:00:30"
BadTime == "0:30"

DocEmpty == DocJ(<<>>)

DocFresh ==
    DocJ(<<VideoJ("a.mp4", <<ClipJ("a_0.mp4", T1, T2, "none")>>),
           VideoJ("b.mkv", <<ClipJNoSha("b_0.mkv", T1, T2)>>)>>)

DocDrift ==
    DocJ(<<VideoJ("a.mp4", <<ClipJ("a_0.mp4", T1, T2, "abc"),
                             ClipJ("a_1.mp4", T2, T3, "h1")>>)>>)

DocDuplicate ==
    DocJ(<<VideoJ("a.mp4", <<ClipJ("a_0.mp4", T1, T2, "none"),
                             ClipJ("a_1.mp4", T1, T2, "h1")>>)>>)

DocUnsorted ==
    DocJ(<<VideoJ("b.mkv", <<ClipJ("b_0.mkv", T1, T2, "h1")>>),
           VideoJ("a.mp4", <<ClipJ("a_1.mp4", T1, T2, "h2")>>)>>)

DocNoVersion ==
    JObj(<<[k |-> KEY_VIDEOS,
            v |-> JObj(<<VideoJ("a.mp4", <<ClipJ("a_0.mp4", T1, T2, "none")>>)>>)]>>)

DocNoStart ==
    DocJ(<<VideoJ("a.mp4",
                  <<[k |-> "a_0.mp4",
                     v |-> JObj(<<[k |-> KEY_END, v |-> JStr(T2)]>>)]>>)>>)

DocBadTime == DocJ(<<VideoJ("a.mp4", <<ClipJ("a_0.mp4", BadTime, T2, "none")>>)>>)

DocMissingSource == DocJ(<<VideoJ("c.mp4", <<ClipJ("c_0.mp4", T1, T2, "none")>>)>>)

\* Documents without a required key, or with a malformed end timestamp.
DocNoVideos == JObj(<<[k |-> KEY_VERSION, v |-> JStr("1")]>>)

DocNoClips == DocJ(<<[k |-> "a.mp4", v |-> JObj(<<>>)]>>)

DocNoEnd ==
    DocJ(<<VideoJ("a.mp4",
                  <<ClipJ("a_0.mp4", T1, T2, "none"),
                    [k |-> "a_1.mp4",
                     v |-> JObj(<<[k |-> KEY_START, v |-> JStr(T1)]>>)]>>)>>)

DocBadEnd ==
    DocJ(<<VideoJ("b.mkv", <<ClipJ("b_0.mkv", T1, T2, "none")>>),
           VideoJ("a.mp4", <<ClipJ("a_0.mp4", T1, BadTime, "none")>>)>>)

\* A clip that ends before it starts, both timestamps well formed.
DocReversed == DocJ(<<VideoJ("a.mp4", <<ClipJ("a_0.mp4", T2, T1, "none")>>)>>)

InitDocs ==
    {DocEmpty, DocFresh, DocDrift, DocDuplicate, DocUnsorted, DocNoVersion,
     DocNoStart, DocBadTime, DocMissingSource, JInvalid, DocReversed,
     DocNoVideos, DocNoClips, DocNoEnd, DocBadEnd}

\* The clip names a document declares (none when it cannot be parsed).
DeclaredNames(file) ==
    LET manifest == Manifest_from_json_file(file)
    IN  IF manifest = None THEN {}
        ELSE {ClipAt(manifest, vc).filename :
                  vc \in {AllClipsWithFile(manifest)[i] :
                              i \in 1..Len(AllClipsWithFile(manifest))}}

\* Output directories at the start: any of the declared clips may be there.
InitOutdirs(file) == UNION {[S -> 1..MaxContent] : S \in SUBSET DeclaredNames(file)}

\* The source files of the input directory.
InputFiles == {"a.mp4", "b.mkv", "d/a.mp4"}

\* Arguments of `add`.
AddFilenames == {"a.mp4", "b.mkv"}
AddTimes == {<<T1, T2>>, <<T2, T3>>, <<T2, T1>>, <<BadTime, T2>>}

Args(command, filename, start, end, no_backup, overwrite, dryrun) ==
    [command |-> command, filename |-> filename, start |-> start, end |-> end,
     no_backup |-> no_backup, overwrite |-> overwrite, dryrun |-> dryrun]

NoArgs == Args("none", "", "", "", FALSE, FALSE, FALSE)

Snapshot == [mfile |-> mfile, backup |-> backup, outdir |-> outdir]

Summary == [command |-> args.command, overwrite |-> args.overwrite,
            dryrun |-> args.dryrun, ret |-> ret]

\* The start: the files, no command run yet.
InitFiles(docs) ==
    /\ mfile \in docs
    /\ backup = NoFile
    /\ outdir \in InitOutdirs(mfile)
    /\ indir = InputFiles
    /\ pc = "idle"
    /\ args = NoArgs
    /\ mem = None
    /\ all_clips = <<>>
    /\ idx = 0
    /\ ret = "none"
    /\ events = <<>>
    /\ pre = Snapshot
    /\ prev = Summary
    /\ runs = 0

Init == InitFiles(InitDocs)

\* A command starts: the previous one is summarised, the files are recorded.
StartCommand(a) ==
    /\ pc = "idle"
    /\ runs < MaxRuns
    /\ runs' = runs + 1
    /\ args' = a
    /\ prev' = Summary
    /\ pre' = Snapshot

(***************************************************************************)
(* add_command                                                             *)
(***************************************************************************)
\* add_command without its test of the order of the timestamps.
StartBeforeEnd_Unchecked(start, end) == TRUE

\* add_command goes on when not (args.start >= args.end).
StartBeforeEnd(start, end) == StrLess(start, end)

AddCommandFor(filenames) ==
    \E filename \in filenames, times \in AddTimes, no_backup \in BOOLEAN,
       copy_ok \in BOOLEAN :
        LET start == times[1]
            end == times[2]
            manifest == Manifest_from_json_file(mfile)
            accepted == /\ manifest # None
                        /\ is_valid_time_format(start)
                        /\ is_valid_time_format(end)
                        /\ StartBeforeEnd(start, end)
            added == Manifest_add_new_clip(manifest, filename, start, end)
            saved == save_manifest(added.manifest, mfile, backup, no_backup, FALSE,
                                   copy_ok)
        IN  /\ copy_ok \in CopyOutcomes(accepted /\ ~no_backup)
            /\ StartCommand(Args("add", filename, start, end, no_backup, FALSE, FALSE))
            /\ IF accepted
               THEN /\ mem' = added.manifest
                    /\ events' = <<[returned |-> added.ok]>>
                    /\ mfile' = saved.mfile
                    /\ backup' = saved.backup
                    /\ ret' = IF saved.raised THEN "exception" ELSE "true"
               ELSE /\ mem' = manifest
                    /\ events' = <<>>
                    /\ UNCHANGED <<mfile, backup>>
                    /\ ret' = "false"
            /\ UNCHANGED <<outdir, indir, pc, all_clips, idx>>

AddCommand == AddCommandFor(AddFilenames)

(***************************************************************************)
(* clip_command                                                            *)
(***************************************************************************)
\* Up to the loop: ffmpeg, the two directories, loading and validation.
ClipStart ==
    \E overwrite \in BOOLEAN, dryrun \in BOOLEAN, no_backup \in BOOLEAN,
       ffmpeg_installed \in BOOLEAN, dirs_exist \in BOOLEAN :
        LET manifest == IF ffmpeg_installed /\ dirs_exist
                        THEN Manifest_from_json_file(mfile) ELSE None
            proceed == /\ manifest # None
                       /\ validate_input_files(manifest, indir)
                       /\ Len(manifest.video_files) # 0
        IN  /\ StartCommand(Args("clip", "", "", "", no_backup, overwrite, dryrun))
            /\ mem' = manifest
            /\ events' = <<>>
            /\ IF proceed
               THEN /\ pc' = "clip"
                    /\ all_clips' = AllClipsWithFile(manifest)
                    /\ idx' = 1
                    /\ ret' = "running"
               ELSE /\ ret' = "false"
                    /\ UNCHANGED <<pc, all_clips, idx>>
            /\ UNCHANGED <<mfile, backup, outdir, indir>>

Event(clip, produce, invoked, returncode, rehashed) ==
    [clip |-> clip.filename,
     vc |-> all_clips[idx],
     existed |-> ClipFileExists(clip, outdir),
     recorded |-> clip.sha256_checksum,
     digest |-> IF ClipFileExists(clip, outdir)
                THEN sha25_hash_of_file(outdir[VideoClip_get_filepath(clip)])
                ELSE "",
     hashed |-> should_clip_video_hashes(clip, outdir, args.overwrite),
     mismatch |-> should_clip_video_reports(clip, outdir, args.overwrite),
     produce |-> produce,
     dryrun_msg |-> produce /\ args.dryrun,
     invoked |-> invoked,
     returncode |-> returncode,
     error_msg |-> invoked /\ returncode # 0,
     rehashed |-> rehashed]

\* One iteration of the loop: the clip is skipped,
ClipSkip ==
    /\ pc = "clip" /\ idx <= Len(all_clips)
    /\ LET clip == ClipAt(mem, all_clips[idx])
       IN  /\ ~should_clip_video(clip, outdir, args.overwrite)
           /\ events' = Append(events, Event(clip, FALSE, FALSE, -1, FALSE))
    /\ idx' = idx + 1
    /\ UNCHANGED <<mfile, backup, outdir, indir, pc, args, mem, all_clips, ret,
                   pre, prev, runs>>

\* or reported only, in a dry run,
ClipDryrun ==
    /\ pc = "clip" /\ idx <= Len(all_clips)
    /\ args.dryrun
    /\ LET clip == ClipAt(mem, all_clips[idx])
       IN  /\ should_clip_video(clip, outdir, args.overwrite)
           /\ events' = Append(events, Event(clip, TRUE, FALSE, -1, FALSE))
    /\ idx' = idx + 1
    /\ UNCHANGED <<mfile, backup, outdir, indir, pc, args, mem, all_clips, ret,
                   pre, prev, runs>>

\* or handed to ffmpeg and hashed afterwards; hashing a file that is not
\* there raises, and the exception leaves clip_command.
ClipProduce ==
    /\ pc = "clip" /\ idx <= Len(all_clips)
    /\ ~args.dryrun
    /\ \E outcome \in MaterializerOutcomes :
        LET clip == ClipAt(mem, all_clips[idx])
            output == clip_video(clip, outdir, outcome)
            name == VideoClip_get_filepath(clip)
        IN  /\ should_clip_video(clip, outdir, args.overwrite)
            /\ outdir' = output
            /\ IF name \in DOMAIN output
               THEN /\ mem' = SetChecksum(mem, all_clips[idx][1], all_clips[idx][2],
                                          sha25_hash_of_file(output[name]))
                    /\ events' = Append(events,
                                        Event(clip, TRUE, TRUE, outcome.returncode, TRUE))
                    /\ idx' = idx + 1
                    /\ UNCHANGED <<pc, ret>>
               ELSE /\ events' = Append(events,
                                        Event(clip, TRUE, TRUE, outcome.returncode, FALSE))
                    /\ pc' = "idle"
                    /\ ret' = "exception"
                    /\ UNCHANGED <<mem, idx>>
    /\ UNCHANGED <<mfile, backup, indir, args, all_clips, pre, prev, runs>>

\* After the loop: save_manifest, return True.
ClipFinish ==
    /\ pc = "clip" /\ idx > Len(all_clips)
    /\ \E copy_ok \in CopyOutcomes(~args.dryrun /\ ~args.no_backup) :
        LET saved == save_manifest(mem, mfile, backup, args.no_backup, args.dryrun,
                                   copy_ok)
        IN  /\ mfile' = saved.mfile
            /\ backup' = saved.backup
            /\ ret' = IF saved.raised THEN "exception" ELSE "true"
    /\ pc' = "idle"
    /\ UNCHANGED <<outdir, indir, args, mem, all_clips, idx, events, pre, prev, runs>>

(***************************************************************************)
(* prune_command                                                           *)
(***************************************************************************)
\* An entry of the output directory that is a directory, not a regular file.
DirEntry == -1

\* Path.is_file() of an entry of the output directory.
IsFile(output, name) == output[name] # DirEntry

\* A name matched by the glob pattern "{stem}_[0-9]*{suffix}": the prefix,
\* one digit, anything, the suffix.
GlobMatch(name, stem, suffix) ==
    LET prefix == stem \o "_"
    IN  /\ Len(name) >= Len(prefix) + 1 + Len(suffix)
        /\ SubSeq(name, 1, Len(prefix)) = prefix
        /\ IsDigit(CharAt(name, Len(prefix) + 1))
        /\ SubSeq(name, Len(name) - Len(suffix) + 1, Len(name)) = suffix

\* known_clip_names built from the first video of the manifest only.
known_clip_names_FirstVideoOnly(manifest) ==
    IF manifest.video_files = <<>> THEN {}
    ELSE {manifest.video_files[1].v.clips[ci].k :
              ci \in 1..Len(manifest.video_files[1].v.clips)}

\* The clip names of all the videos of the manifest.
known_clip_names(manifest) ==
    UNION {{manifest.video_files[vi].v.clips[ci].k :
                ci \in 1..Len(manifest.video_files[vi].v.clips)} :
           vi \in 1..Len(manifest.video_files)}

\* The files prune_command offers to delete.
matching_filepaths(manifest, output) ==
    {name \in DOMAIN output :
        /\ \E vi \in 1..Len(manifest.video_files) :
               GlobMatch(name, PathStem(manifest.video_files[vi].k),
                         PathSuffix(manifest.video_files[vi].k))
        /\ name \notin known_clip_names(manifest)
        /\ IsFile(output, name)}

\* What the user types at the confirmation prompt.
PruneAnswers == {"y", "n", ""}

PruneCommand ==
    \E answer \in PruneAnswers :
        LET manifest == Manifest_from_json_file(mfile)
            found == IF manifest = None THEN {}
                     ELSE matching_filepaths(manifest, outdir)
        IN  /\ StartCommand(Args("prune", "", "", "", FALSE, FALSE, FALSE))
            /\ mem' = manifest
            /\ IF manifest = None
               THEN /\ ret' = "false"
                    /\ events' = <<>>
                    /\ UNCHANGED outdir
               ELSE /\ ret' = "true"
                    /\ events' = <<[matching_filepaths |-> found,
                                    asked |-> found # {},
                                    answer |-> answer]>>
                    /\ outdir' = IF found # {} /\ answer = "y"
                                 THEN [name \in DOMAIN outdir \ found |-> outdir[name]]
                                 ELSE outdir
            /\ UNCHANGED <<mfile, backup, indir, pc, all_clips, idx>>

(***************************************************************************)
(* format_command                                                          *)
(***************************************************************************)
\* format_command: load, sort, save_manifest(manifest, args.manifest); the
\* --no-backup flag is parsed and not passed on.
FormatCommand ==
    \E no_backup \in BOOLEAN, copy_ok \in BOOLEAN :
        LET manifest == Manifest_from_json_file(mfile)
            sorted == Manifest_sort(manifest)
            saved == save_manifest(sorted, mfile, backup, FALSE, FALSE, copy_ok)
        IN  /\ copy_ok \in CopyOutcomes(manifest # None)
            /\ StartCommand(Args("format", "", "", "", no_backup, FALSE, FALSE))
            /\ events' = <<>>
            /\ IF manifest = None
               THEN /\ mem' = manifest
                    /\ ret' = "false"
                    /\ UNCHANGED <<mfile, backup>>
               ELSE /\ mem' = sorted
                    /\ mfile' = saved.mfile
                    /\ backup' = saved.backup
                    /\ ret' = IF saved.raised THEN "exception" ELSE "true"
            /\ UNCHANGED <<outdir, indir, pc, all_clips, idx>>

Next ==
    \/ AddCommand
    \/ ClipStart \/ ClipSkip \/ ClipDryrun \/ ClipProduce \/ ClipFinish
    \/ PruneCommand
    \/ FormatCommand

Spec == Init /\ [][Next]_vars

\* The `clip` command alone, run again and again on what it left behind.
NextClip == ClipStart \/ ClipSkip \/ ClipDryrun \/ ClipProduce \/ ClipFinish

\* DocDuplicate is there for `add` and DocUnsorted for `format`; `clip`
\* treats them as it treats DocDrift and DocFresh.
InitClip == InitFiles(InitDocs \ {DocDuplicate, DocUnsorted})

SpecClip == InitClip /\ [][NextClip]_vars

\* The `add` command alone; it never looks at the output directory, which
\* starts empty.
InitAdd == Init /\ outdir = <<>>

NextAdd == AddCommand

SpecAdd == InitAdd /\ [][NextAdd]_vars

\* `add` to an empty manifest, for sources of which two share a name in
\* different directories.
NamingFilenames == {"a.mp4", "d/a.mp4", "b.mkv"}

AddNaming == AddCommandFor(NamingFilenames)

InitNaming == InitFiles({DocEmpty})

SpecNaming == InitNaming /\ [][AddNaming]_vars

\* The `prune` command alone, on output directories that hold declared
\* clips, files that look like clips, other files, and directories.
DocPrune ==
    DocJ(<<VideoJ("a.mp4", <<ClipJ("a_0.mp4", T1, T2, "h1")>>),
           VideoJ("b.mkv", <<ClipJ("b_0.mkv", T1, T2, "h1"),
                             ClipJ("a_3.mp4", T2, T3, "h1")>>)>>)

PruneDocs == {DocPrune, DocEmpty, DocNoVersion}

PruneNames == {"a_0.mp4", "a_7.mp4", "a_7x.mp4", "a_3.mp4", "b_0.mkv", "a_.mp4"}

PruneOutdirs == UNION {[S -> {1, DirEntry}] : S \in SUBSET PruneNames}

InitPrune ==
    /\ mfile \in PruneDocs
    /\ backup = NoFile
    /\ outdir \in PruneOutdirs
    /\ indir = InputFiles
    /\ pc = "idle"
    /\ args = NoArgs
    /\ mem = None
    /\ all_clips = <<>>
    /\ idx = 0
    /\ ret = "none"
    /\ events = <<>>
    /\ pre = Snapshot
    /\ prev = Summary
    /\ runs = 0

NextPrune == PruneCommand

SpecPrune == InitPrune /\ [][NextPrune]_vars

\* The `format` command alone.
DocThreeUnsorted ==
    DocJ(<<VideoJ("d/a.mp4", <<ClipJ("a_0.mp4", T1, T2, "h1")>>),
           VideoJ("b.mkv", <<ClipJ("b_1.mkv", T2, T3, "h2"),
                             ClipJ("b_0.mkv", T1, T2, "none")>>),
           VideoJ("a.mp4", <<ClipJNoSha("a_1.mp4", T1, T2)>>)>>)

FormatDocs == InitDocs \cup {DocThreeUnsorted, DocPrune}

InitFormat == InitFiles(FormatDocs)

NextFormat == FormatCommand

SpecFormat == InitFormat /\ [][NextFormat]_vars

\* The `clip` command on the manifest that `add` builds for a.mp4 and
\* d/a.mp4: both sources declare the clip a_0.mp4.
DocCollide ==
    DocJ(<<VideoJ("a.mp4", <<ClipJ("a_0.mp4", T1, T2, "none")>>),
           VideoJ("d/a.mp4", <<ClipJ("a_0.mp4", T2, T3, "none")>>)>>)

InitCollide == InitFiles({DocCollide, DocDrift})

SpecCollide == InitCollide /\ [][NextClip]_vars

\* `add` and `clip` in any order, on a manifest that is empty or holds one
\* clip ending before it starts.
InitOrder == InitFiles({DocEmpty, DocReversed})

AddOrder == AddCommandFor({"a.mp4"})

NextOrder == AddOrder \/ NextClip

SpecOrder == InitOrder /\ [][NextOrder]_vars

(***************************************************************************)
(* Properties.                                                             *)
(***************************************************************************)
ClipRun == args.command = "clip"

AddRun == args.command = "add"

EventSet == {events[i] : i \in 1..Len(events)}

Failed(e) == e.invoked /\ e.returncode # 0

Succeeded(e) == e.invoked /\ e.returncode = 0

\* C1: reconcile decides by the table: PRODUCE when the output file does not
\* exist; SKIP, without computing the hash, when it exists and overwrite is
\* not allowed; SKIP when it exists, overwrite is allowed and the digest is
\* the recorded content_hash; PRODUCE, with the mismatch reported, when it
\* exists, overwrite is allowed and the digest differs.
C1_DecisionTable ==
    ClipRun =>
        \A e \in EventSet :
            /\ ~e.existed => e.produce /\ ~e.hashed /\ ~e.mismatch
            /\ (e.existed /\ ~args.overwrite) => ~e.produce /\ ~e.hashed /\ ~e.mismatch
            /\ (e.existed /\ args.overwrite /\ e.digest = e.recorded)
                   => ~e.produce /\ e.hashed /\ ~e.mismatch
            /\ (e.existed /\ args.overwrite /\ e.digest # e.recorded)
                   => e.produce /\ e.hashed /\ e.mismatch

\* A finished run with overwrite allowed that met a file with the recorded
\* digest and a file with another one.
C1_Witness ==
    /\ ClipRun /\ args.overwrite /\ ret = "true"
    /\ \E e \in EventSet : e.existed /\ e.digest # e.recorded /\ e.produce /\ e.mismatch
    /\ \E e \in EventSet : e.existed /\ e.digest = e.recorded /\ ~e.produce

\* C2: in a run that is not a dry run, a failure of the materializer for one
\* artifact is reported and the loop goes on to every remaining artifact: the
\* command never ends with artifacts left undecided.
C2_FailureDoesNotAbortBatch ==
    (ClipRun /\ ~args.dryrun /\ pc = "idle" /\ ret # "false"
        /\ \E e \in EventSet : Failed(e))
    => /\ \A e \in EventSet : Failed(e) => e.error_msg
       /\ Len(events) = Len(all_clips)

\* C3: content_hash changes only for an artifact whose materializer run was
\* invoked and succeeded; otherwise it keeps the value it had before the run.
C3_HashChangesOnlyOnSuccess ==
    ClipRun =>
        \A e \in EventSet :
            ClipAt(mem, e.vc).sha256_checksum # e.recorded => Succeeded(e)

\* C4: a dry run never invokes the materializer, never writes the manifest
\* file or its .backup, and leaves the output directory as it was.
C4_DryRunTouchesNothing ==
    (ClipRun /\ args.dryrun) =>
        /\ \A e \in EventSet : ~e.invoked
        /\ mfile = pre.mfile
        /\ backup = pre.backup
        /\ outdir = pre.outdir

\* A finished dry run, backup not disabled, that would have produced a clip.
C4_Witness ==
    /\ ClipRun /\ args.dryrun /\ ~args.no_backup /\ ret = "true"
    /\ \E e \in EventSet : e.produce /\ e.dryrun_msg
    /\ \E e \in EventSet : e.existed /\ e.mismatch

\* The run is the second of two runs of reconcile in a row, both with
\* overwrite=false and dry_run=false, the first having entered its loop.
SecondRun ==
    /\ ClipRun /\ ~args.overwrite /\ ~args.dryrun
    /\ prev.command = "clip" /\ ~prev.overwrite /\ ~prev.dryrun
    /\ prev.ret \in {"true", "exception"}

\* C5: the second of two such runs invokes the materializer for no artifact
\* and leaves the manifest, in memory and on disk, as the first run left it.
C5_SecondRunIdempotent ==
    SecondRun =>
        /\ \A e \in EventSet : ~e.invoked
        /\ (pc = "idle" /\ ret = "true") =>
               /\ mfile = pre.mfile
               /\ mem = Manifest_from_json_file(pre.mfile)

\* C6 as claimed: a drifted artifact (file there, digest differing from the
\* recorded content_hash) is skipped with the mismatch reported when
\* overwrite=false, and produced when overwrite=true.
C6_DriftReportedWithoutOverwrite ==
    ClipRun =>
        \A e \in EventSet :
            (e.existed /\ e.digest # e.recorded) =>
                IF args.overwrite THEN e.produce ELSE ~e.produce /\ e.mismatch

\* C6, amended: with overwrite=false a drifted artifact is skipped and its
\* digest is not computed, so no mismatch is reported; with overwrite=true
\* the mismatch is reported and the artifact is produced.
C6_DriftSkippedUnreported ==
    ClipRun =>
        \A e \in EventSet :
            (e.existed /\ e.digest # e.recorded) =>
                IF args.overwrite
                THEN e.produce /\ e.mismatch
                ELSE ~e.produce /\ ~e.hashed /\ ~e.mismatch

\* A drifted artifact met with overwrite=false, its recorded hash a digest.
C6_Witness ==
    /\ ClipRun /\ ~args.overwrite /\ ret = "true"
    /\ \E e \in EventSet :
           e.existed /\ e.recorded = "abc" /\ e.digest = "h1" /\ ~e.produce

\* C7: a run that is not a dry run and in which the materializer failed
\* still reaches save_manifest, and the manifest file then holds the
\* content_hash of every artifact produced in the run.
C7_FailuresStillPersist ==
    (ClipRun /\ ~args.dryrun /\ pc = "idle" /\ ret # "false"
        /\ \E e \in EventSet : Failed(e))
    => /\ ret = "true"
       /\ Manifest_from_json_file(mfile) # None
       /\ \A e \in EventSet :
              Succeeded(e) =>
                  ClipAt(Manifest_from_json_file(mfile), e.vc).sha256_checksum
                      = sha25_hash_of_file(outdir[e.clip])

\* The source named by `add` declares, in the manifest file as the command
\* found it, a clip with exactly the timestamps given.
DuplicateGiven ==
    /\ AddRun
    /\ pre.mfile.t # "invalid"
    /\ Has(pre.mfile.o, KEY_VERSION) /\ Has(pre.mfile.o, KEY_VIDEOS)
    /\ LET videos == Get(pre.mfile.o, KEY_VIDEOS).o
       IN  /\ Has(videos, args.filename)
           /\ Has(Get(videos, args.filename).o, KEY_CLIPS)
           /\ LET clips == Get(Get(videos, args.filename).o, KEY_CLIPS).o
              IN  \E i \in 1..Len(clips) :
                      /\ Has(clips[i].v.o, KEY_START)
                      /\ Has(clips[i].v.o, KEY_END)
                      /\ Get(clips[i].v.o, KEY_START).s = args.start
                      /\ Get(clips[i].v.o, KEY_END).s = args.end

\* C8: add_new_clip called with timestamps the source already declares
\* returns False and leaves the in-memory manifest as it was loaded.
C8_DuplicateRejected ==
    (DuplicateGiven /\ Len(events) = 1) =>
        /\ events[1].returned = FALSE
        /\ mem = Manifest_from_json_file(pre.mfile)

\* add_new_clip was called with a duplicate, on a manifest with two sources.
C8_Witness ==
    /\ DuplicateGiven /\ Len(events) = 1
    /\ mem # None
    /\ Len(mem.video_files) = 2

\* C9: `add` given a duplicate fails and persists nothing: the manifest file
\* and its .backup are as before the command.
C9_DuplicateAddPersistsNothing ==
    DuplicateGiven =>
        /\ ret # "true"
        /\ mfile = pre.mfile
        /\ backup = pre.backup

\* No source of the manifest holds two clips with the same (start, end).
NoDuplicatePairs(manifest) ==
    \A v \in 1..Len(manifest.video_files) :
        LET clips == manifest.video_files[v].v.clips
        IN  \A i, j \in 1..Len(clips) :
                (/\ clips[i].v.start_timestamp = clips[j].v.start_timestamp
                 /\ clips[i].v.end_timestamp = clips[j].v.end_timestamp) => i = j

\* C10 as claimed: whatever document was parsed and whatever was added, no
\* source of the manifest holds two clips with the same (start, end).
C10_NeverDuplicatePairs ==
    mem # None => NoDuplicatePairs(mem)

\* C10, amended: add_new_clip adds no duplicate. When the document `add`
\* loaded has no source with two clips of the same (start, end), neither has
\* the manifest after the add, in memory or as saved; parsing checks nothing,
\* so duplicates written in the document stay.
C10_AddKeepsPairsDistinct ==
    (AddRun /\ mem # None /\ NoDuplicatePairs(Manifest_from_json_file(pre.mfile))) =>
        /\ NoDuplicatePairs(mem)
        /\ NoDuplicatePairs(Manifest_from_json_file(mfile))

\* Two adds in a row to one source, the second a duplicate of the first.
C10_Witness ==
    /\ AddRun /\ ret = "true"
    /\ DuplicateGiven
    /\ prev.command = "add" /\ prev.ret = "true"
    /\ mem # None
    /\ NoDuplicatePairs(mem)
    /\ \E v \in 1..Len(mem.video_files) : Len(mem.video_files[v].v.clips) = 2

\* The clips of a manifest, as a set.
ClipsOf(manifest) ==
    {ClipAt(manifest, AllClipsWithFile(manifest)[i]) :
         i \in 1..Len(AllClipsWithFile(manifest))}

\* C11 as claimed: every artifact of a manifest that passed parsing and
\* validate_input_files has start < end, so the materializer is never handed
\* an artifact with start >= end.
C11_ValidatedStartBeforeEnd ==
    (ClipRun /\ pc = "clip") =>
        /\ \A clip \in ClipsOf(mem) : StrLess(clip.start_timestamp, clip.end_timestamp)
        /\ \A e \in EventSet :
               e.invoked => StrLess(ClipAt(mem, e.vc).start_timestamp,
                                    ClipAt(mem, e.vc).end_timestamp)

\* The manifest `add` loaded, with no source and no clip when it has none.
LoadedNames ==
    IF Manifest_from_json_file(pre.mfile) = None
          \/ ~Has(Manifest_from_json_file(pre.mfile).video_files, args.filename)
    THEN {}
    ELSE LET clips == Get(Manifest_from_json_file(pre.mfile).video_files,
                          args.filename).clips
         IN  {clips[i].k : i \in 1..Len(clips)}

\* The clips `add` created: those of its source that were not loaded.
CreatedClips ==
    IF mem = None \/ ~Has(mem.video_files, args.filename) THEN {}
    ELSE LET clips == Get(mem.video_files, args.filename).clips
         IN  {clips[i].v : i \in {j \in 1..Len(clips) : clips[j].k \notin LoadedNames}}

\* C11, amended: every artifact the `add` command creates has start < end
\* (validate_input_files tests the grammar of the timestamps only, so a
\* validated manifest can hold an artifact with start >= end).
C11_AddedStartBeforeEnd ==
    AddRun =>
        \A clip \in CreatedClips :
            /\ clip.start_timestamp = args.start
            /\ clip.end_timestamp = args.end
            /\ StrLess(clip.start_timestamp, clip.end_timestamp)

\* `add` created a clip.
C11_Witness ==
    /\ AddRun /\ ret = "true"
    /\ Cardinality(CreatedClips) = 1
    /\ \E clip \in CreatedClips : clip.start_timestamp = T2 /\ clip.end_timestamp = T3

\* The clips of the source named by `add`, as loaded and as they are now.
LoadedClips ==
    IF LoadedNames = {} THEN <<>>
    ELSE Get(Manifest_from_json_file(pre.mfile).video_files, args.filename).clips

SourceClips == Get(mem.video_files, args.filename).clips

\* add_new_clip was called and returned True.
AddAccepted == AddRun /\ Len(events) = 1 /\ events[1].returned

OrdinalName(filename, n) ==
    PathStem(filename) \o "_" \o ToString(n) \o PathSuffix(filename)

\* C12: an accepted add appends one artifact named "{base}_{ordinal}{ext}"
\* with the smallest ordinal whose name the source does not hold; the name
\* was not there before and every artifact that was there is as it was.
C12_SmallestFreeOrdinal ==
    AddAccepted =>
        /\ Len(SourceClips) = Len(LoadedClips) + 1
        /\ \A i \in 1..Len(LoadedClips) : SourceClips[i] = LoadedClips[i]
        /\ LET new == SourceClips[Len(SourceClips)]
           IN  /\ new.k \notin LoadedNames
               /\ new.v.filename = new.k
               /\ \E n \in 0..Len(LoadedClips) :
                      /\ new.k = OrdinalName(args.filename, n)
                      /\ \A m \in 0..(n - 1) :
                             OrdinalName(args.filename, m) \in LoadedNames

\* An add that had to pass two taken names, and one that filled a gap.
C12_Witness ==
    /\ AddAccepted
    /\ \/ /\ LoadedNames = {"a_0.mp4", "a_1.mp4"}
          /\ SourceClips[Len(SourceClips)].k = "a_2.mp4"
       \/ /\ LoadedNames = {"a_1.mp4"}
          /\ SourceClips[Len(SourceClips)].k = "a_0.mp4"

\* C13: in a manifest built from an empty one by adds, for any sources, two
\* distinct artifacts never have the same identifier, so never the same
\* destination path in the output directory.
C13_NamesDistinctAcrossManifest ==
    mem # None =>
        \A i, j \in 1..Len(AllClipsWithFile(mem)) :
            VideoClip_get_filepath(ClipAt(mem, AllClipsWithFile(mem)[i]))
                = VideoClip_get_filepath(ClipAt(mem, AllClipsWithFile(mem)[j]))
            => i = j

PruneRun == args.command = "prune" /\ ret = "true"

AllDigits(s) == Len(s) >= 1 /\ \A i \in 1..Len(s) : IsDigit(CharAt(s, i))

\* The name is "{base}_<digits>{ext}" for the source, digits only.
OrdinalForm(name, source) ==
    LET prefix == PathStem(source) \o "_"
        suffix == PathSuffix(source)
    IN  /\ Len(name) >= Len(prefix) + 1 + Len(suffix)
        /\ SubSeq(name, 1, Len(prefix)) = prefix
        /\ SubSeq(name, Len(name) - Len(suffix) + 1, Len(name)) = suffix
        /\ AllDigits(SubSeq(name, Len(prefix) + 1, Len(name) - Len(suffix)))

\* C14: the prune set is exactly the regular files of the output directory
\* named "{base}_<digits>{ext}" (decimal digits only) for some source and not
\* a key of that source's clips; computing it deletes and changes nothing.
C14_PruneSetIsExactDifference ==
    PruneRun =>
        /\ events[1].matching_filepaths =
               {name \in DOMAIN pre.outdir :
                   /\ pre.outdir[name] # DirEntry
                   /\ \E vi \in 1..Len(mem.video_files) :
                          /\ OrdinalForm(name, mem.video_files[vi].k)
                          /\ \A ci \in 1..Len(mem.video_files[vi].v.clips) :
                                 mem.video_files[vi].v.clips[ci].k # name}
        /\ (events[1].answer # "y" => outdir = pre.outdir)
        /\ mfile = pre.mfile /\ backup = pre.backup

\* add_command reached save_manifest, asked to make a backup.
AddSavedWithBackup == AddRun /\ Len(events) = 1 /\ ~args.no_backup

\* C15: a save with a backup, not a dry run, first copies the manifest file
\* to .backup and then overwrites it: afterwards .backup holds the file's
\* content from before the save and the file holds the serialization of the
\* manifest in memory; when the copy fails the file is not overwritten.
C15_BackupBeforeOverwrite ==
    AddSavedWithBackup =>
        /\ ret \in {"true", "exception"}
        /\ ret = "true" => /\ backup = pre.mfile
                           /\ mfile = Manifest_to_json(mem)
        /\ ret = "exception" => mfile = pre.mfile

C15_Witness ==
    /\ AddSavedWithBackup /\ ret = "true"
    /\ prev.command = "add" /\ prev.ret = "exception"
    /\ backup = pre.mfile
    /\ mfile # pre.mfile

\* C16: add, clip and format, run with --no-backup, save the manifest
\* without creating or modifying the manifest's .backup file.
C16_NoBackupLeavesBackupAlone ==
    (/\ args.command \in {"add", "clip", "format"}
     /\ args.no_backup
     /\ pc = "idle")
    => backup = pre.backup

\* The keys of a JSON object, in the order of the document.
KeysOf(j) == [i \in 1..Len(j.o) |-> j.o[i].k]

AllStrings(j) == \A i \in 1..Len(j.o) : j.o[i].v.t = "str"

\* A well-formed document in canonical field order: version, then the
\* videos; each video its clips; each clip start, end and checksum.
Canonical(d) ==
    /\ d.t = "obj"
    /\ KeysOf(d) = <<KEY_VERSION, KEY_VIDEOS>>
    /\ d.o[1].v.t = "str"
    /\ d.o[2].v.t = "obj"
    /\ \A i \in 1..Len(d.o[2].v.o) :
           LET video == d.o[2].v.o[i].v
           IN  /\ video.t = "obj"
               /\ KeysOf(video) = <<KEY_CLIPS>>
               /\ video.o[1].v.t = "obj"
               /\ \A j \in 1..Len(video.o[1].v.o) :
                      LET clip == video.o[1].v.o[j].v
                      IN  /\ clip.t = "obj"
                          /\ KeysOf(clip) = <<KEY_START, KEY_END, KEY_SHA256_CHECKSUM>>
                          /\ AllStrings(clip)

\* add_command rejected a duplicate and saved the manifest as it loaded it.
AddSavedUnchanged ==
    AddRun /\ Len(events) = 1 /\ ~events[1].returned /\ ret = "true"

\* C17: a well-formed manifest document in canonical field order is
\* serialized back as it was parsed: same videos, same clips, same values,
\* same order; so on disk too, when it is loaded and saved unchanged.
C17_RoundTrip ==
    /\ Canonical(mfile) => Manifest_to_json(Manifest_from_json_file(mfile)) = mfile
    /\ (AddSavedUnchanged /\ Canonical(pre.mfile)) => mfile = pre.mfile

C17_Witness ==
    /\ AddSavedUnchanged
    /\ Canonical(pre.mfile)
    /\ Len(mem.video_files) >= 1
    /\ mfile = pre.mfile

\* The videos of a document and the clips of one of its videos, as written.
DocVideos(d) == IF Has(d.o, KEY_VIDEOS) THEN Get(d.o, KEY_VIDEOS).o ELSE <<>>

DocClips(video) == IF Has(video.o, KEY_CLIPS) THEN Get(video.o, KEY_CLIPS).o ELSE <<>>

\* The document lacks its version, its videos, the clips of a video, or the
\* start or the end of a clip.
MissingRequiredKey(d) ==
    /\ d.t = "obj"
    /\ \/ ~Has(d.o, KEY_VERSION)
       \/ ~Has(d.o, KEY_VIDEOS)
       \/ \E i \in 1..Len(DocVideos(d)) :
              \/ ~Has(DocVideos(d)[i].v.o, KEY_CLIPS)
              \/ \E j \in 1..Len(DocClips(DocVideos(d)[i].v)) :
                     \/ ~Has(DocClips(DocVideos(d)[i].v)[j].v.o, KEY_START)
                     \/ ~Has(DocClips(DocVideos(d)[i].v)[j].v.o, KEY_END)

\* The document has its keys, and names a source file that is not in the
\* input directory or gives a timestamp that is not HH:MM:SS.
FailsValidation(d, input_files) ==
    /\ d.t = "obj"
    /\ ~MissingRequiredKey(d)
    /\ \E i \in 1..Len(DocVideos(d)) :
           \/ DocVideos(d)[i].k \notin input_files
           \/ \E j \in 1..Len(DocClips(DocVideos(d)[i].v)) :
                  LET clip == DocClips(DocVideos(d)[i].v)[j].v.o
                  IN  \/ ~is_valid_time_format(Get(clip, KEY_START).s)
                      \/ ~is_valid_time_format(Get(clip, KEY_END).s)

\* C18: when the manifest lacks a required key, names a missing source file
\* or holds a malformed timestamp, clip stops before any mutation: ffmpeg is
\* not invoked, no checksum changes, neither the manifest file nor .backup is
\* written, and the command reports failure.
C18_InvalidManifestAborts ==
    (ClipRun /\ (MissingRequiredKey(pre.mfile) \/ FailsValidation(pre.mfile, indir)))
    => /\ pc = "idle"
       /\ ret = "false"
       /\ events = <<>>
       /\ mfile = pre.mfile
       /\ backup = pre.backup
       /\ outdir = pre.outdir
       /\ mem # None => Manifest_to_json(mem) = Manifest_to_json(Manifest_from_json_file(pre.mfile))

C18_Witness ==
    /\ ClipRun /\ ret = "false"
    /\ args.overwrite /\ ~args.dryrun
    /\ FailsValidation(pre.mfile, indir)
    /\ mem # None
    /\ \E i \in 1..Len(mem.video_files) :
           /\ mem.video_files[i].k \in indir
           /\ \E j \in 1..Len(mem.video_files[i].v.clips) :
                  mem.video_files[i].v.clips[j].k \notin DOMAIN outdir

\* format_command loaded the manifest and sorted it.
FormatRun == args.command = "format" /\ mem # None

EntrySet(items) == {items[i] : i \in 1..Len(items)}

\* C19: sort leaves the videos in ascending lexicographic order of their
\* names and changes nothing else: the same videos, each with the same clips
\* in the same order with the same start, end and checksum, the same version.
C19_SortOrdersSourcesOnly ==
    FormatRun =>
        LET before == Manifest_from_json_file(pre.mfile)
        IN  /\ \A i \in 1..(Len(mem.video_files) - 1) :
                   StrLess(mem.video_files[i].k, mem.video_files[i + 1].k)
            /\ Len(mem.video_files) = Len(before.video_files)
            /\ EntrySet(mem.video_files) = EntrySet(before.video_files)
            /\ mem.version = before.version
            /\ ret = "true" => mfile = Manifest_to_json(mem)

C19_Witness ==
    /\ FormatRun /\ ret = "true"
    /\ Len(mem.video_files) >= 3
    /\ mem.video_files # Manifest_from_json_file(pre.mfile).video_files
    /\ \E i \in 1..Len(mem.video_files) :
           /\ Len(mem.video_files[i].v.clips) >= 2
           /\ StrLess(mem.video_files[i].v.clips[2].k, mem.video_files[i].v.clips[1].k)

\* C20: after a clip run with overwrite, not a dry run, that runs to
\* completion, every declared clip's recorded checksum is the digest of the
\* file at its path in the output directory.
C20_OverwriteLeavesNoDrift ==
    (ClipRun /\ args.overwrite /\ ~args.dryrun /\ pc = "idle" /\ ret = "true")
    => \A i \in 1..Len(AllClipsWithFile(mem)) :
           LET clip == ClipAt(mem, AllClipsWithFile(mem)[i])
           IN  /\ ClipFileExists(clip, outdir)
               /\ clip.sha256_checksum
                      = sha25_hash_of_file(outdir[VideoClip_get_filepath(clip)])

\* The clip names written in a document, under any of its videos.
DocClipNames(d) ==
    UNION {{DocClips(DocVideos(d)[i].v)[j].k :
                j \in 1..Len(DocClips(DocVideos(d)[i].v))} :
           i \in 1..Len(DocVideos(d))}

\* C21: the prune set never holds a file whose name some source declares as
\* a clip, even when the name matches the pattern of another source; so
\* prune, whatever the answer at the prompt, leaves every declared clip's
\* output file in place and as it was.
C21_PruneSparesDeclaredClips ==
    PruneRun =>
        /\ events[1].matching_filepaths \cap DocClipNames(pre.mfile) = {}
        /\ \A name \in DocClipNames(pre.mfile) \cap DOMAIN pre.outdir :
               /\ name \in DOMAIN outdir
               /\ outdir[name] = pre.outdir[name]

\* A file declared by b.mkv and matching the pattern of a.mp4 is there,
\* other files are deleted on "y", and it stays.
C21_Witness ==
    /\ PruneRun
    /\ pre.mfile = DocPrune
    /\ events[1].answer = "y"
    /\ events[1].matching_filepaths # {}
    /\ outdir # pre.outdir
    /\ "a_3.mp4" \in DOMAIN pre.outdir
    /\ pre.outdir["a_3.mp4"] # DirEntry
    /\ GlobMatch("a_3.mp4", PathStem("a.mp4"), PathSuffix("a.mp4"))
    /\ "a_3.mp4" \in DOMAIN outdir

====
